---------------------------- MODULE Spec2Model ----------------------------
(***************************************************************************)
(* A model of fugu-py's device communication engine: the two transports    *)
(* (transport.py), the reader loop, the command/acknowledgment protocol,   *)
(* the PWM ramp and the configuration query of FuguDevice (fugu.py).       *)
(*                                                                         *)
(* Text is modelled as a sequence of lexemes.  A lexeme is a record        *)
(* [k, n]: k is the lexeme's text (or "num" for a number, whose value is   *)
(* n).  Substring tests, strip() and the two regular expressions work on   *)
(* these sequences the way the Python code works on characters.            *)
(***************************************************************************)
EXTENDS Integers, Sequences, FiniteSets, TLC

(***************************************************************************)
(* Lexemes and the string helpers of the Python runtime                    *)
(***************************************************************************)
T(s) == [k |-> s, n |-> 0]
N(i) == [k |-> "num", n |-> i]

Whitespace == {" ", "\n"}

\* math.nan, as the value of a float field
NaN == -1

Max(a, b) == IF a >= b THEN a ELSE b
Min(a, b) == IF a <= b THEN a ELSE b
Abs(x) == IF x < 0 THEN -x ELSE x
Range(s) == {s[i] : i \in 1..Len(s)}
Last(s) == s[Len(s)]
\* the last n elements of s
LastN(s, n) == SubSeq(s, Max(1, Len(s) - n + 1), Len(s))

\* str.strip(): drop leading and trailing whitespace
RECURSIVE LStrip(_)
LStrip(s) == IF s # <<>> /\ Head(s).k \in Whitespace THEN LStrip(Tail(s)) ELSE s
RECURSIVE RStrip(_)
RStrip(s) ==
    IF s # <<>> /\ Last(s).k \in Whitespace THEN RStrip(SubSeq(s, 1, Len(s) - 1)) ELSE s
Strip(s) == RStrip(LStrip(s))

\* the Python test  sub in s  on strings
Contains(s, sub) ==
    \E i \in 0..(Len(s) - Len(sub)) : SubSeq(s, i + 1, i + Len(sub)) = sub

\* bytes.decode('utf-8') fails on a byte sequence that is not UTF-8
Decodable(b) == \A i \in 1..Len(b) : b[i].k # "\\xff"

(***************************************************************************)
(* A matcher for the two regular expressions.  A pattern is a sequence of  *)
(* elements [q, cls, cap]: q is "one", "star" or "plus" (greedy), cls a    *)
(* character class or a literal lexeme, cap the name of the group the      *)
(* element fills ("" for none).  The match found is the one backtracking   *)
(* finds: each quantifier in turn takes the longest repetition with which  *)
(* the rest of the pattern still matches.                                  *)
(***************************************************************************)
One(cls, cap) == [q |-> "one", cls |-> cls, cap |-> cap]
Star(cls) == [q |-> "star", cls |-> cls, cap |-> ""]
Plus(cls) == [q |-> "plus", cls |-> cls, cap |-> ""]
Lit(s) == One(s, "")

InClass(t, cls) ==
    CASE cls = "\\s" -> t.k \in Whitespace
      [] cls = "." -> t.k # "\n"
      [] cls = "[0-9.]+" -> t.k = "num" /\ t.n >= 0
      [] cls = "[0-9]+" -> t.k = "num" /\ t.n >= 0
      [] cls = "-?[0-9]+" -> t.k = "num"
      [] cls = "r_float" -> (t.k = "num" /\ t.n >= 0) \/ t.k = "nan"
      [] cls = "[CD]CM" -> t.k \in {"CCM", "DCM"}
      [] OTHER -> t.k = cls

NoMatch == [ok |-> FALSE, caps |-> {}]

\* element e matches exactly the lexemes of s from position j up to j2
Takes(e, s, j, j2) ==
    /\ j2 <= Len(s) + 1
    /\ CASE e.q = "one" -> j2 = j + 1
         [] e.q = "star" -> j2 >= j
         [] e.q = "plus" -> j2 >= j + 1
    /\ \A k \in j..(j2 - 1) : InClass(s[k], e.cls)

\* the positions from which elements lo..hi of pat match s up to a position of W
RECURSIVE Back(_, _, _, _, _)
Back(pat, lo, hi, s, W) ==
    UNION {IF l = h
           THEN IF p[l].q = "one"
                THEN {j \in 1..Len(t) : j + 1 \in w /\ InClass(t[j], p[l].cls)}
                ELSE {j \in 1..(Len(t) + 1) : \E j2 \in w : Takes(p[l], t, j, j2)}
           ELSE UNION {Back(p, l, mid, t, w2) : w2 \in {Back(p, mid + 1, h, t, w)}} :
              p \in {pat}, l \in {lo}, h \in {hi}, t \in {s}, w \in {W},
              mid \in {(lo + hi) \div 2}}

\* where each of the elements lo..hi ends when they start at j and the rest
\* of the pattern matches from the positions W: each takes the most it can
RECURSIVE Path(_, _, _, _, _, _)
Path(pat, lo, hi, s, j, W) ==
    CHOOSE r \in
       {IF l = h
        THEN IF p[l].q = "one"
             THEN <<i + 1>>
             ELSE <<CHOOSE e \in w :
                       /\ Takes(p[l], t, i, e)
                       /\ \A f \in w : Takes(p[l], t, i, f) => f <= e>>
        ELSE CHOOSE q \in {a \o Path(p, mid + 1, h, t, a[Len(a)], w) :
                             a \in {Path(p, l, mid, t, i, w2) :
                                      w2 \in {Back(p, mid + 1, h, t, w)}}} : TRUE :
           p \in {pat}, l \in {lo}, h \in {hi}, t \in {s}, i \in {j}, w \in {W},
           mid \in {(lo + hi) \div 2}} : TRUE

\* the match of pat that starts at position j of s
MatchAt(pat, s, j) ==
    CHOOSE m \in {[ok |-> TRUE,
                   caps |-> {[name |-> pat[i].cap,
                              from |-> IF i = 1 THEN j ELSE path[i - 1],
                              to |-> path[i] - 1] :
                               i \in {k \in 1..Len(pat) : pat[k].cap # ""}}] :
                    path \in {Path(pat, 1, Len(pat), s, j, 1..(Len(s) + 1))}} : TRUE

\* the match that starts at the least position of v, if there is one
Leftmost(pat, s, v) ==
    IF v = {} THEN NoMatch ELSE MatchAt(pat, s, CHOOSE j \in v : \A k \in v : j <= k)

\* re.match: anchored at the start of the string
ReMatch(pat, s) ==
    CHOOSE m \in {Leftmost(pat, s, v \cap {1}) :
                    v \in {Back(pat, 1, Len(pat), s, 1..(Len(s) + 1))}} : TRUE

\* re.search: the leftmost position at which the pattern matches
ReSearch(pat, s) ==
    CHOOSE m \in {Leftmost(pat, s, v) :
                    v \in {Back(pat, 1, Len(pat), s, 1..(Len(s) + 1))}} : TRUE

\* m.group(name): the lexemes the named group matched
Group(m, s, name) ==
    LET c == CHOOSE c \in m.caps : c.name = name
    IN  SubSeq(s, c.from, c.to)

(***************************************************************************)
(* fugu.py: the telemetry grammar and PwmState                             *)
(***************************************************************************)
\* RE_PWM, lexeme by lexeme ("degC" stands for the degree-Celsius sign)
RE_PWM ==
    << Lit("V="), Star("\\s"), One("[0-9.]+", "vin"), Star("\\s"), Lit("/"), Star("\\s"),
       One("[0-9.]+", "vout"), Plus("."),
       One("[0-9.]+", ""), Lit("W "), One("r_float", "tmp_ntc"), Lit("degC"),
       One("r_float", "tmp_mcu"), Lit("degC"), One("\\s", ""), Star("."),
       One("[CD]CM", "mode"), Lit("(H|L|Lm)="), Star("\\s"), One("[0-9]+", "ctrl"),
       Lit("|"), Star("\\s"), One("[0-9]+", "sync"), Lit("|"), Star("\\s"),
       One("[0-9]+", "sync_max"), One("\\s", ""), Plus("."),
       Lit("rssi="), Star("\\s"), One("-?[0-9]+", "rssi") >>

\* int(...) and float(...) of a one-lexeme group
ToInt(g) == g[1].n
ToFloat(g) == IF g[1].k = "nan" THEN NaN ELSE g[1].n

\* PwmState.__init__; ccm is None, True or False
PwmState(ccm, pwm_ctrl, pwm_sync, pwm_sync_max) ==
    [ccm |-> ccm, pwm_ctrl |-> pwm_ctrl, pwm_sync |-> pwm_sync,
     pwm_sync_max |-> pwm_sync_max]

\* PwmState(None, 0, 0, 0)
UnsetPwm == PwmState("None", 0, 0, 0)

\* a mutant of PwmEq: the mode is left out of the comparison
PwmEqNoMode(a, b) ==
    /\ a.pwm_ctrl = b.pwm_ctrl
    /\ a.pwm_sync = b.pwm_sync
    /\ a.pwm_sync_max = b.pwm_sync_max

\* PwmState.__eq__
PwmEq(a, b) ==
    /\ a.ccm = b.ccm
    /\ a.pwm_ctrl = b.pwm_ctrl
    /\ a.pwm_sync = b.pwm_sync
    /\ a.pwm_sync_max = b.pwm_sync_max

\* a comparison that finds no difference from the unset state
PwmNeKnown(a, b) == a.ccm # "None" /\ ~PwmEq(a, b)

\* PwmState.__ne__
PwmNe(a, b) == ~PwmEq(a, b)

\* the snapshot _recv_loop builds from a match m of RE_PWM in rx
SnapshotOf(m, line) ==
    PwmState(IF Group(m, line, "mode")[1].k = "CCM" THEN "True" ELSE "False",
             ToInt(Group(m, line, "ctrl")),
             ToInt(Group(m, line, "sync")),
             ToInt(Group(m, line, "sync_max")))

\* a mutant of IsNoise: the two words are looked for side by side, in this order
IsNoiseAdjacent(line) == Contains(line, <<T("ina22x"), T(" "), T("timeout")>>)

\* 'ina22x' in rx and 'timeout' in rx
IsNoise(line) == Contains(line, <<T("ina22x")>>) /\ Contains(line, <<T("timeout")>>)

\* a mutant of OkResp: the command is not stripped
OkRespRaw(c) == <<T("OK: ")>> \o c

\* ok_resp = "OK: " + cmd.strip()
OkResp(c) == <<T("OK: ")>> \o Strip(c)

\* f"get-config {file} {key}"
GetConfigCmd(file, key) == <<T("get-config"), T(" "), T(file), T(" "), T(key)>>

\* rex = re.compile(rf".+: Conf '/littlefs/conf/{file}:{key}' = '(.*)'")
ConfRex(file, key) ==
    << Plus("."), Lit(": "), Lit("Conf '/littlefs/conf/"), Lit(file), Lit(":"), Lit(key),
       Lit("' = '"), [q |-> "star", cls |-> ".", cap |-> "1"], Lit("'") >>

(***************************************************************************)
(* Bounds of the model                                                     *)
(***************************************************************************)
\* lines the reader loop handles in one run
MaxReads == 3
\* lines the consuming queue holds before the device is made to wait
MaxQueue == 2
\* the clock stops counting at this many ticks since the last activity
MaxElapsed == 5
\* the largest PWM count of a ramp's start and target
MaxPwm == 23

(***************************************************************************)
(* Program constants                                                       *)
(***************************************************************************)
\* collections.deque(maxlen=20)
TailLen == 20
\* for _ in range(1, 20)
AckRounds == 19
\* max_step = 10
max_step == 10
\* clock ticks per second: the model's clock counts half seconds
TicksPerSec == 2
\* time.time() - self.t_last_comm > 1
ProbeIdle == 1
\* time.time() - self.t_last_comm < 2
FreshIdle == 2
\* self.sock.settimeout(6)
RecvTimeout == 6
\* SocketTransport(..., is_telnet=True)
is_telnet == TRUE

(***************************************************************************)
(* The lines of the device                                                 *)
(***************************************************************************)
\* a telemetry line; extra is free text between the temperatures and the mode
TeleLine(vin, vout, ntc, mode, ctrl, sync, extra) ==
    << T("V="), N(vin), T("/"), N(vout), T(" "), T("I=3.75/9.88A"), T(" "), N(276),
       T("W "), ntc, T("degC"), N(54), T("degC"), T(" ") >> \o extra \o
    << T(mode), T("(H|L|Lm)="), T(" "), N(ctrl), T("|"), N(sync), T("|"), N(1257),
       T(" "), T("st=MANU,0"), T(" "), T("rssi="), N(-40), T("\n") >>

LTeleA == TeleLine(73, 27, N(53), "CCM", 7, 12, <<>>)
\* the PWM fields of LTeleA, other voltages and temperatures
LTeleA2 == TeleLine(74, 28, T("nan"), "CCM", 7, 12, <<>>)
\* LTeleA with another mode only
LTeleB == TeleLine(73, 27, N(53), "DCM", 7, 12, <<>>)
\* a telemetry line that also carries the sensor warning
LTeleNoise == TeleLine(73, 27, N(53), "CCM", 8, 12, <<T("timeout"), T(" "), T("ina22x"), T(" ")>>)
LNoise == <<T("W"), T(" "), T("ina22x"), T(" "), T("timeout"), T("\n")>>
LNoiseRev == <<T("timeout"), T(" "), T("of"), T(" "), T("ina22x"), T("\n")>>
LHalfNoise == <<T("ina22x"), T(" "), T("ready"), T("\n")>>
LHello == <<T("hello"), T("\n")>>
LBlank == <<T(" "), T("\n")>>
LBadBytes == <<T("\\xff"), T("\n")>>

OkLine(c) == <<T("I"), T(" ")>> \o OkResp(c) \o <<T("\n")>>

\* the command of sync_rect_enable, and padded ones
CmdSync == <<T("sync"), T(" "), T("1")>>
CmdPadR == <<T("mppt"), T("\n")>>
CmdPadL == <<T(" "), T("mppt")>>
Cmds == {CmdSync, CmdPadR, CmdPadL}

LOkSync == OkLine(CmdSync)
LOkMppt == <<T("OK: "), T("mppt"), T("\n")>>
\* "OK: " followed by the padded command CmdPadL as it was passed
LOkPadL == <<T("OK: "), T(" "), T("mppt"), T("\n")>>

ConfText(file, key, value) ==
    <<T("Conf '/littlefs/conf/"), T(file), T(":"), T(key), T("' = '"), T(value), T("'")>>
LConfHome == <<T("I (1) conf"), T(": ")>> \o ConfText("net", "ssid", "home") \o <<T("\n")>>
LConfWork == <<T("I (2) conf"), T(": ")>> \o ConfText("net", "ssid", "work") \o <<T("\n")>>
LConfOther == <<T("I (3) conf"), T(": ")>> \o ConfText("net", "pass", "x") \o <<T("\n")>>
\* the reply without any text before it
LConfBare == ConfText("net", "ssid", "bare") \o <<T("\n")>>
LOkConf == OkLine(GetConfigCmd("net", "ssid"))

ReaderWire == {LTeleA, LTeleA2, LTeleB, LTeleNoise, LNoise, LNoiseRev, LHalfNoise,
               LHello, LBlank, LBadBytes}
AckWire == {LOkSync, LOkMppt, LOkPadL, LHello}
ConfWire == {LConfHome, LConfWork, LConfOther, LConfBare, LOkConf}
LinkWire == {LHello, LBlank}
LiveWire == {LHello}

(***************************************************************************)
(* The state                                                               *)
(***************************************************************************)
VARIABLES
    \* the transport
    tkind,          \* "serial" (SerialTransport) or "socket" (SocketTransport)
    link,           \* "none": ser is None / the socket is not connected;
                    \* "open"; "closed"
    peer,           \* the device's end: "up", "eof" (closed), "reset" (gone)
    elapsed,        \* ticks since t_last_comm (socket), stops at MaxElapsed
    sent,           \* the last frame written: [by, frame]
    wire,           \* the lines the device may emit
    \* FuguDevice
    is_open, pwm_state, wifi_rssi, temperatures, voltages,
    ser_deque, ser_tail, on_message,
    \* the reader thread (_recv_loop)
    rpc,            \* "top", "read", "parse", "cmp", "commit", "appq", "appt",
                    \* "cb", "stopped", "dead" (an exception ended the thread)
    rx,             \* the stripped line in hand
    s,              \* the snapshot parsed from rx
    \* the calling thread
    cpc,            \* "idle" or the step of the operation in progress
    cop,            \* the operation: "", "command_ack", "get_conf_value", "set_D", ...
    cmd,            \* command_ack's argument
    l,              \* command_ack's last drained line
    round,          \* command_ack's polling round
    ret,            \* the outcome of the last operation: [kind, val]
    conf,           \* get_conf_value's arguments and iterator: [file, key, idx]
    pwm_ctrl, pwm_cnt,   \* set_D's local and argument
    \* history
    it,             \* what the reader loop's current iteration did
    cb_log,         \* the lines passed to on_message
    drained,        \* the lines command_ack popped in its polling rounds (the
                    \* last MaxReads of them)
    prewrite,       \* how many lines were queued when command_ack wrote cmd
    ramp,           \* the values set_D wrote
    ramp_from,      \* the control value set_D started from
    scan,           \* the replay ring as get_conf_value's scan found it
    tail_dirty,     \* the ring changed since the scan's iterator was made
    tcall,          \* the last call of a transport method: the link before and
                    \* after it, and what check_connection found
    nread,          \* lines handled so far
    forwarded,      \* the lines the reader loop forwarded (the last TailLen + 1)
    fresh           \* pwm_state holds the fields of a line read after the last
                    \* reset of pwm_state by the calling thread

tvars == <<tkind, link, peer, elapsed, sent, wire>>
fvars == <<is_open, pwm_state, wifi_rssi, temperatures, voltages, ser_deque, ser_tail,
           on_message>>
rvars == <<rpc, rx, s>>
cvars == <<cpc, cop, cmd, l, round, ret, conf, pwm_ctrl, pwm_cnt>>
hvars == <<it, cb_log, drained, prewrite, ramp, ramp_from, scan, tail_dirty, tcall, nread,
           forwarded, fresh>>
vars == <<tvars, fvars, rvars, cvars, hvars>>

\* line: the line in hand; tele: RE_PWM matched; before: pwm_state as compared;
\* cmp: "eq" or "ne"; commit: pwm_state was replaced, by after; q, t: the line was
\* appended to the queue, the ring; cb: "invoked", or "unset" for no callback;
\* idle: the ticks since the last activity when the read began; res: what the
\* read returned; probe: the read wrote the probe frame; reset: the calling
\* thread reset pwm_state after the read
NoIter == [line |-> <<>>, tele |-> FALSE, before |-> UnsetPwm, cmp |-> "", commit |-> FALSE,
           after |-> UnsetPwm, q |-> FALSE, t |-> FALSE, cb |-> "", idle |-> 0, res |-> "",
           probe |-> FALSE, reset |-> FALSE]
\* kind is "True", "None", "value", "False" or "raised" (exc names the exception)
NoRet == [kind |-> "", exc |-> "", val |-> <<>>]
Ret(kind, val) == [kind |-> kind, exc |-> "", val |-> val]
Raised(exc, val) == [kind |-> "raised", exc |-> exc, val |-> val]
NoConf == [file |-> "", key |-> "", idx |-> 0]
NoSent == [by |-> "", frame |-> <<>>]
NoCall == [op |-> "", before |-> "", after |-> "", idle |-> 0, stale |-> FALSE, peek |-> ""]

\* FuguDevice.__init__ has run: the transport is open, the reader thread
\* started, no operation in progress
InitWith(kinds, lines) ==
    /\ tkind \in kinds
    /\ link = "open"
    /\ peer = "up"
    /\ elapsed = 0
    /\ sent = NoSent
    /\ wire = lines
    /\ is_open = TRUE
    /\ on_message = FALSE
    /\ rpc = "top"
    /\ rx = <<>>
    /\ s = UnsetPwm
    /\ cpc = "idle"
    /\ cop = ""
    /\ cmd = <<>>
    /\ l = <<>>
    /\ round = 0
    /\ ret = NoRet
    /\ conf = NoConf
    /\ pwm_ctrl = 0
    /\ pwm_cnt = 0
    /\ it = NoIter
    /\ cb_log = <<>>
    /\ drained = <<>>
    /\ prewrite = 0
    /\ ramp = <<>>
    /\ ramp_from = 0
    /\ scan = <<>>
    /\ tail_dirty = FALSE
    /\ tcall = NoCall
    /\ nread = 0

\* no line has been read yet
NothingRead ==
    /\ pwm_state = UnsetPwm
    /\ wifi_rssi = 0
    /\ temperatures = <<>>
    /\ voltages = <<>>
    /\ ser_deque = <<>>
    /\ ser_tail = <<>>
    /\ forwarded = <<>>
    /\ fresh = FALSE

\* the reader loop has handled one telemetry line, of control value c
TelemetryRead(c) ==
    /\ pwm_state = PwmState("True", c, 12, 1257)
    /\ wifi_rssi = -40
    /\ temperatures = <<53, 54>>
    /\ voltages = <<73, 27>>
    /\ ser_deque = <<Strip(TeleLine(73, 27, N(53), "CCM", c, 12, <<>>))>>
    /\ ser_tail = <<Strip(TeleLine(73, 27, N(53), "CCM", c, 12, <<>>))>>
    /\ forwarded = <<Strip(TeleLine(73, 27, N(53), "CCM", c, 12, <<>>))>>
    /\ fresh = TRUE

(***************************************************************************)
(* transport.py                                                            *)
(***************************************************************************)
\* time.time() - self.t_last_comm, in seconds, compared with a threshold
IdleMoreThan(secs) == elapsed > secs * TicksPerSec
IdleLessThan(secs) == elapsed < secs * TicksPerSec

\* what self.sock.send(data) can do
SendOutcomes ==
    IF link # "open" THEN {"OSError"}
    ELSE IF peer = "up" THEN {"ok"}
    ELSE {"ok", "BrokenPipeError", "ConnectionResetError"}

\* what self.ser.write(data) can do
SerWriteOutcomes ==
    IF link = "none" THEN {"AttributeError"}
    ELSE IF link = "closed" THEN {"PortNotOpenError"}
    ELSE IF peer = "up" THEN {"ok"}
    ELSE {"SerialException"}

\* Transport.write, by outcome
WriteOutcomes == IF tkind = "socket" THEN SendOutcomes ELSE SerWriteOutcomes

\* SocketTransport.write / SerialTransport.write: the outcome o of writing
\* frame from thread by; an exception leaves the transport as it was
TransportWrite(by, frame, o) ==
    /\ o \in WriteOutcomes
    /\ IF o = "ok"
       THEN /\ sent' = [by |-> by, frame |-> frame]
            /\ elapsed' = IF tkind = "socket" THEN 0 ELSE elapsed
       ELSE UNCHANGED <<sent, elapsed>>

\* what the blocking self.sock.recv(1024) can do
RecvOutcomes ==
    IF link # "open" THEN {"OSError"}
    ELSE IF peer = "up" THEN {"data", "TimeoutError"}
    ELSE IF peer = "eof" THEN {"eof"}
    ELSE {"ConnectionResetError"}

\* what self.sock.recv(16, MSG_DONTWAIT | MSG_PEEK) can do
PeekOutcomes ==
    IF link # "open" THEN {"OSError"}
    ELSE IF peer = "up" THEN {"data", "BlockingIOError"}
    ELSE IF peer = "eof" THEN {"eof"}
    ELSE {"ConnectionResetError"}

\* bytes([255, 241]), the telnet NOP
ProbeFrame == <<N(255), N(241)>>

\* SocketTransport.read: the result res ("data", "empty" or an exception's name)
SocketRead(res) ==
    \E r \in RecvOutcomes :
       \/ /\ r = "data"
          /\ res = "data"
          /\ elapsed' = 0
          /\ UNCHANGED <<link, sent>>
       \/ /\ r = "TimeoutError"
          /\ res = r
          /\ elapsed' = Min(elapsed + RecvTimeout * TicksPerSec, MaxElapsed)
          /\ UNCHANGED <<link, sent>>
       \/ /\ r \in {"OSError", "ConnectionResetError"}
          /\ res = r
          /\ UNCHANGED <<link, sent, elapsed>>
       \/ /\ r = "eof"
          /\ IF IdleMoreThan(ProbeIdle) /\ is_telnet
             THEN \E o \in SendOutcomes :
                     /\ TransportWrite("reader", ProbeFrame, o)
                     /\ link' = IF o = "BrokenPipeError" THEN "closed" ELSE link
                     /\ res = IF o \in {"ok", "BrokenPipeError"} THEN "empty" ELSE o
             ELSE res = "empty" /\ UNCHANGED <<link, sent, elapsed>>

\* SerialTransport.read
SerialRead(res) ==
    /\ UNCHANGED <<link, sent, elapsed>>
    /\ res = IF link = "none" THEN "AttributeError"
             ELSE IF link = "closed" THEN "None"
             ELSE IF peer = "up" THEN "data"
             ELSE "SerialException"

TransportRead(res) == IF tkind = "socket" THEN SocketRead(res) ELSE SerialRead(res)

\* the read that returned res sent the probe frame: self.write(bytes([255, 241]))
\* went through, which also set t_last_comm
ProbeWritten(res) ==
    /\ tkind = "socket"
    /\ res = "empty"
    /\ IdleMoreThan(ProbeIdle)
    /\ sent' = [by |-> "reader", frame |-> ProbeFrame]
    /\ elapsed' = 0

ReadResults == {"data", "empty", "None", "TimeoutError", "OSError", "ConnectionResetError",
                "SerialException", "AttributeError"}

(***************************************************************************)
(* fugu.py: FuguDevice._recv_loop                                          *)
(***************************************************************************)
\* while self.is_open
ReaderTop ==
    /\ rpc = "top"
    /\ rpc' = IF is_open THEN "read" ELSE "stopped"
    /\ UNCHANGED <<tvars, fvars, rx, s, cvars, hvars>>

\* rx_b = self.transport.read(); rx = rx_b.decode('utf-8').strip(), with the
\* except clauses and the empty-line test.  b is the chunk the device sent.
ReaderRead(b) ==
    /\ rpc = "read"
    /\ \E res \in ReadResults :
          /\ TransportRead(res)
          /\ LET bytes == IF res = "data" THEN b ELSE <<>>
                 line == Strip(bytes)
                 read == [NoIter EXCEPT !.idle = elapsed, !.res = res,
                                        !.probe = ProbeWritten(res)]
             IN  IF res \in {"data", "empty"} /\ Decodable(bytes) /\ line # <<>>
                 THEN /\ rpc' = "parse"
                      /\ rx' = line
                      /\ it' = [read EXCEPT !.line = line]
                 ELSE /\ rpc' = IF res \in {"data", "empty", "TimeoutError"}
                                THEN "top" ELSE "dead"
                      /\ rx' = <<>>
                      /\ it' = read
    /\ s' = UnsetPwm
    /\ UNCHANGED <<tkind, peer, wire, fvars, cvars, cb_log, drained, prewrite, ramp, ramp_from, scan,
                   tail_dirty, tcall, forwarded, fresh>>

\* where the loop goes once the telemetry branch is done with rx
AfterTelemetry(line) == IF IsNoise(line) THEN "top" ELSE "appq"

\* m = RE_PWM.search(rx) and the fields read from the match
ReaderParse ==
    /\ rpc = "parse"
    /\ \E m \in {ReSearch(RE_PWM, rx)} :
       IF m.ok
       THEN /\ s' = SnapshotOf(m, rx)
            /\ wifi_rssi' = ToInt(Group(m, rx, "rssi"))
            /\ temperatures' = <<ToFloat(Group(m, rx, "tmp_ntc")),
                                 ToFloat(Group(m, rx, "tmp_mcu"))>>
            /\ voltages' = <<ToFloat(Group(m, rx, "vin")), ToFloat(Group(m, rx, "vout"))>>
            /\ it' = [it EXCEPT !.tele = TRUE]
            /\ rpc' = "cmp"
       ELSE /\ rpc' = AfterTelemetry(rx)
            /\ UNCHANGED <<s, wifi_rssi, temperatures, voltages, it>>
    /\ UNCHANGED <<tvars, is_open, pwm_state, ser_deque, ser_tail, on_message, rx, cvars,
                   cb_log, drained, prewrite, ramp, ramp_from, scan, tail_dirty, tcall, nread, forwarded,
                   fresh>>

\* if self.pwm_state != s ... else: continue
ReaderCmp ==
    /\ rpc = "cmp"
    /\ rpc' = IF PwmNe(pwm_state, s) THEN "commit" ELSE "top"
    /\ it' = [it EXCEPT !.before = pwm_state,
                        !.cmp = IF PwmNe(pwm_state, s) THEN "ne" ELSE "eq"]
    /\ UNCHANGED <<tvars, fvars, rx, s, cvars, cb_log, drained, prewrite, ramp, ramp_from, scan,
                   tail_dirty, tcall, nread, forwarded,
                   fresh>>

\* self.pwm_state = s
ReaderCommit ==
    /\ rpc = "commit"
    /\ pwm_state' = s
    /\ rpc' = AfterTelemetry(rx)
    /\ it' = [it EXCEPT !.commit = TRUE, !.after = s]
    /\ fresh' = ~it.reset
    /\ UNCHANGED <<tvars, is_open, wifi_rssi, temperatures, voltages, ser_deque, ser_tail,
                   on_message, rx, s, cvars, cb_log, drained, prewrite, ramp, ramp_from, scan,
                   tail_dirty, tcall, nread, forwarded>>

\* self.ser_deque.append(rx)
ReaderAppendQueue ==
    /\ rpc = "appq"
    /\ ser_deque' = Append(ser_deque, rx)
    /\ rpc' = "appt"
    /\ it' = [it EXCEPT !.q = TRUE]
    /\ forwarded' = LastN(Append(forwarded, rx), TailLen + 1)
    /\ UNCHANGED <<tvars, is_open, pwm_state, wifi_rssi, temperatures, voltages, ser_tail,
                   on_message, rx, s, cvars, cb_log, drained, prewrite, ramp, ramp_from, scan,
                   tail_dirty, tcall, nread, fresh>>

\* a ring without a capacity
RingAppendUnbounded(ring, line) == Append(ring, line)

\* deque(maxlen=20).append: the oldest line is dropped once the ring is full
RingAppend(ring, line) ==
    IF Len(ring) >= TailLen THEN Append(Tail(ring), line) ELSE Append(ring, line)

\* self.ser_tail.append(rx)
ReaderAppendTail ==
    /\ rpc = "appt"
    /\ ser_tail' = RingAppend(ser_tail, rx)
    /\ tail_dirty' = TRUE
    /\ rpc' = "cb"
    /\ it' = [it EXCEPT !.t = TRUE]
    /\ UNCHANGED <<tvars, is_open, pwm_state, wifi_rssi, temperatures, voltages, ser_deque,
                   on_message, rx, s, cvars, cb_log, drained, prewrite, ramp, ramp_from, scan, tcall,
                   nread, forwarded,
                   fresh>>

\* a loop that hands every forwarded line to the callback twice
ReaderCallbackTwice ==
    /\ rpc = "cb"
    /\ cb_log' = IF on_message THEN Append(Append(cb_log, rx), rx) ELSE cb_log
    /\ it' = [it EXCEPT !.cb = IF on_message THEN "invoked" ELSE "unset"]
    /\ rpc' = "top"
    /\ UNCHANGED <<tvars, fvars, rx, s, cvars, drained, prewrite, ramp, ramp_from, scan,
                   tail_dirty, tcall, nread, forwarded, fresh>>

\* self.on_message and self.on_message(rx)
ReaderCallback ==
    /\ rpc = "cb"
    /\ cb_log' = IF on_message THEN Append(cb_log, rx) ELSE cb_log
    /\ it' = [it EXCEPT !.cb = IF on_message THEN "invoked" ELSE "unset"]
    /\ rpc' = "top"
    /\ UNCHANGED <<tvars, fvars, rx, s, cvars, drained, prewrite, ramp, ramp_from, scan,
                   tail_dirty, tcall, nread, forwarded,
                   fresh>>

\* one read of the loop, counted against the run's budget of lines
ReaderReadCounted ==
    /\ nread < MaxReads
    /\ \E b \in wire : ReaderRead(b)
    /\ nread' = IF rpc' = "parse" THEN nread + 1 ELSE nread

\* one read of the loop of a device that never stops talking; the device waits
\* while MaxQueue lines are unread
ReaderReadPaced ==
    /\ Len(ser_deque) < MaxQueue
    /\ \E b \in wire : ReaderRead(b)
    /\ nread' = nread

\* one read of the loop of a device that never stops talking
ReaderReadFree ==
    /\ \E b \in wire : ReaderRead(b)
    /\ nread' = nread

\* dev.on_message = callback
RegisterCallback ==
    /\ cpc = "idle"
    /\ ~on_message
    /\ on_message' = TRUE
    /\ UNCHANGED <<tvars, is_open, pwm_state, wifi_rssi, temperatures, voltages, ser_deque,
                   ser_tail, rvars, cvars, hvars>>

(***************************************************************************)
(* fugu.py: FuguDevice.command_ack and get_conf_value                      *)
(***************************************************************************)
\* the calling thread starts an operation: its locals and history are fresh
Begin(op, c) ==
    /\ cpc = "idle"
    /\ cop' = op
    /\ cmd' = c
    /\ l' = <<>>
    /\ round' = 0
    /\ drained' = <<>>
    /\ prewrite' = 0
    /\ scan' = <<>>

\* command_ack(cmd): ser_deque.clear()
AckClear(op, c) ==
    /\ Begin(op, c)
    /\ ret' = NoRet
    /\ ser_deque' = <<>>
    /\ cpc' = "ack_write"
    /\ UNCHANGED <<tvars, is_open, pwm_state, wifi_rssi, temperatures, voltages, ser_tail,
                   on_message, rvars, pwm_ctrl, pwm_cnt, it, cb_log, ramp, ramp_from,
                   tail_dirty, tcall, nread, forwarded,
                   fresh>>

CommandAck == \E c \in Cmds : AckClear("command_ack", c) /\ conf' = NoConf

\* get_conf_value(file, key): self.command_ack(f"get-config {file} {key}")
GetConfValue ==
    \E file \in {"net"}, key \in {"ssid"} :
       /\ AckClear("get_conf_value", GetConfigCmd(file, key))
       /\ conf' = [file |-> file, key |-> key, idx |-> 0]

\* self.write(cmd.strip() + '\n')
AckWrite ==
    /\ cpc = "ack_write"
    /\ \E o \in WriteOutcomes :
          /\ TransportWrite("caller", Strip(cmd) \o <<T("\n")>>, o)
          /\ IF o = "ok"
             THEN cpc' = "ack_poll" /\ round' = 1 /\ ret' = ret
             ELSE cpc' = "idle" /\ round' = round /\ ret' = Raised(o, <<>>)
    /\ prewrite' = Len(ser_deque)
    /\ UNCHANGED <<tkind, link, peer, wire, fvars, rvars, cop, cmd, l, conf, pwm_ctrl,
                   pwm_cnt, it, cb_log, drained, ramp, ramp_from, scan, tail_dirty, tcall,
                   nread, forwarded,
                   fresh>>

\* if ok_resp in l.strip()
IsAck(line, c) == Contains(Strip(line), OkResp(c))

\* one pass of  for _ in range(1, 20): while len(ser_deque): l = popleft() ...;
\* time.sleep(0.1)
AckPoll ==
    /\ cpc = "ack_poll"
    /\ IF ser_deque # <<>>
       THEN /\ ser_deque' = Tail(ser_deque)
            /\ l' = Head(ser_deque)
            /\ drained' = LastN(Append(drained, Head(ser_deque)), MaxReads)
            /\ round' = round
            /\ IF IsAck(Head(ser_deque), cmd)
               THEN IF cop = "get_conf_value"
                    THEN cpc' = "conf_iter" /\ ret' = ret
                    ELSE cpc' = "idle" /\ ret' = Ret("True", <<>>)
               ELSE cpc' = "ack_poll" /\ ret' = ret
       ELSE /\ IF round < AckRounds
               THEN round' = round + 1 /\ cpc' = "ack_poll"
               ELSE round' = round /\ cpc' = "ack_flush"
            /\ UNCHANGED <<ser_deque, l, drained, ret>>
    /\ UNCHANGED <<tvars, is_open, pwm_state, wifi_rssi, temperatures, voltages, ser_tail,
                   on_message, rvars, cop, cmd, conf, pwm_ctrl, pwm_cnt, it, cb_log, prewrite,
                   ramp, ramp_from, scan, tail_dirty, tcall, nread, forwarded,
                   fresh>>

\* while len(ser_deque): logger.warning(..., ser_deque.popleft()); then
\* raise Exception(f"unexpected serial response '{l}' for command '{cmd}")
AckFlush ==
    /\ cpc = "ack_flush"
    /\ IF ser_deque # <<>>
       THEN ser_deque' = Tail(ser_deque) /\ UNCHANGED <<cpc, ret>>
       ELSE /\ cpc' = "idle"
            /\ ret' = Raised("Exception", l \o <<T("' for command '")>> \o cmd)
            /\ UNCHANGED ser_deque
    /\ UNCHANGED <<tvars, is_open, pwm_state, wifi_rssi, temperatures, voltages, ser_tail,
                   on_message, rvars, cop, cmd, l, round, conf, pwm_ctrl, pwm_cnt, hvars>>

\* for l in reversed(self.ser_tail): the iterator is made
ConfIter ==
    /\ cpc = "conf_iter"
    /\ conf' = [conf EXCEPT !.idx = Len(ser_tail)]
    /\ scan' = ser_tail
    /\ tail_dirty' = FALSE
    /\ cpc' = "conf_next"
    /\ UNCHANGED <<tvars, fvars, rvars, cop, cmd, l, round, ret, pwm_ctrl, pwm_cnt, it,
                   cb_log, drained, prewrite, ramp, ramp_from, tcall, nread, forwarded,
                   fresh>>

\* one step of the loop: the deque's iterator raises RuntimeError when the deque
\* has changed since it was made and lines are left; if m := rex.match(l):
\* return m.group(1); after the loop, return None
ConfNext ==
    /\ cpc = "conf_next"
    /\ IF conf.idx = 0
       THEN cpc' = "idle" /\ ret' = Ret("None", <<>>) /\ conf' = conf
       ELSE IF tail_dirty
       THEN cpc' = "idle" /\ ret' = Raised("RuntimeError", <<>>) /\ conf' = conf
       ELSE LET line == ser_tail[conf.idx]
                m == ReMatch(ConfRex(conf.file, conf.key), line)
            IN  IF m.ok
                THEN cpc' = "idle" /\ ret' = Ret("value", Group(m, line, "1")) /\ conf' = conf
                ELSE cpc' = "conf_next" /\ ret' = ret /\ conf' = [conf EXCEPT !.idx = @ - 1]
    /\ UNCHANGED <<tvars, fvars, rvars, cop, cmd, l, round, pwm_ctrl, pwm_cnt, hvars>>

(***************************************************************************)
(* fugu.py: FuguDevice.set_D                                               *)
(***************************************************************************)
\* a mutant of Step: the clamped step always points up
StepUnsigned(target, cur) ==
    LET delta == target - cur
    IN  IF target # 0 /\ Abs(delta) > max_step THEN max_step ELSE delta

\* a mutant of Step: a target of 0 is faded like any other
StepFadeToZero(target, cur) ==
    LET delta == target - cur
    IN  IF Abs(delta) > max_step THEN (max_step * delta) \div Abs(delta) ELSE delta

\* delta = pwm_cnt - pwm_ctrl; if pwm_cnt != 0 and abs(delta) > max_step:
\* delta = max_step * delta / abs(delta)
Step(target, cur) ==
    LET delta == target - cur
    IN  IF target # 0 /\ Abs(delta) > max_step
        THEN (max_step * delta) \div Abs(delta)
        ELSE delta

\* set_D(pwm_cnt): pwm_ctrl = self.pwm_state.pwm_ctrl
SetD ==
    \E target \in (-MaxPwm)..MaxPwm :
       /\ Begin("set_D", <<>>)
       /\ ret' = NoRet
       /\ pwm_cnt' = target
       /\ pwm_ctrl' = pwm_state.pwm_ctrl
       /\ ramp' = <<>>
       /\ ramp_from' = pwm_state.pwm_ctrl
       /\ cpc' = "ramp"
       /\ UNCHANGED <<tvars, fvars, rvars, conf, it, cb_log, tail_dirty, tcall, nread, forwarded,
                   fresh>>

\* one pass of  while pwm_ctrl != pwm_cnt: ...; self.transport.write(b'dc %d\n' % pwm_ctrl)
RampStep ==
    /\ cpc = "ramp"
    /\ IF pwm_ctrl = pwm_cnt
       THEN /\ cpc' = "idle"
            /\ ret' = Ret("None", <<>>)
            /\ UNCHANGED <<pwm_ctrl, ramp, sent, elapsed>>
       ELSE LET next == pwm_ctrl + Step(pwm_cnt, pwm_ctrl) IN
            \E o \in WriteOutcomes :
               /\ TransportWrite("caller", <<T("dc "), N(next), T("\n")>>, o)
               /\ IF o = "ok"
                  THEN /\ pwm_ctrl' = next
                       /\ ramp' = Append(ramp, next)
                       /\ UNCHANGED <<cpc, ret>>
                  ELSE /\ cpc' = "idle"
                       /\ ret' = Raised(o, <<>>)
                       /\ UNCHANGED <<pwm_ctrl, ramp>>
    /\ UNCHANGED <<tkind, link, peer, wire, fvars, rvars, cop, cmd, l, round, conf, pwm_cnt,
                   it, cb_log, drained, prewrite, ramp_from, scan, tail_dirty, tcall, nread, forwarded,
                   fresh>>

(***************************************************************************)
(* fugu.py: FuguDevice.wait_for_pwm_state                                  *)
(***************************************************************************)
\* assert self._rx_thread.is_alive(); self.pwm_state = PwmState(None, 0, 0, 0)
WaitReset ==
    /\ Begin("wait_for_pwm_state", <<>>)
    /\ IF rpc \in {"stopped", "dead"}
       THEN /\ ret' = Raised("AssertionError", <<>>)
            /\ cpc' = "idle"
            /\ UNCHANGED <<pwm_state, it, fresh>>
       ELSE /\ ret' = NoRet
            /\ cpc' = "wait_poll"
            /\ pwm_state' = UnsetPwm
            /\ it' = [it EXCEPT !.reset = TRUE]
            /\ fresh' = FALSE
    /\ UNCHANGED <<tvars, is_open, wifi_rssi, temperatures, voltages, ser_deque, ser_tail,
                   on_message, rvars, conf, pwm_ctrl, pwm_cnt, cb_log, ramp, ramp_from,
                   tail_dirty, tcall, nread, forwarded>>

\* while self.pwm_state.ccm is None: time.sleep(0.1)
WaitPoll ==
    /\ cpc = "wait_poll"
    /\ IF pwm_state.ccm = "None"
       THEN UNCHANGED <<cpc, ret>>
       ELSE cpc' = "idle" /\ ret' = Ret("None", <<>>)
    /\ UNCHANGED <<tvars, fvars, rvars, cop, cmd, l, round, conf, pwm_ctrl, pwm_cnt, hvars>>

(***************************************************************************)
(* transport.py: open, close and check_connection, called by the owner     *)
(***************************************************************************)
\* a call of a transport method from the calling thread
TransportCall(op, stale, peek, after, result) ==
    /\ Begin(op, <<>>)
    /\ cpc' = "idle"
    /\ link' = after
    /\ ret' = result
    /\ tcall' = [op |-> op, before |-> link, after |-> after, idle |-> elapsed,
                 stale |-> stale, peek |-> peek]
    /\ UNCHANGED <<tkind, peer, elapsed, sent, wire, fvars, rvars, conf, pwm_ctrl, pwm_cnt,
                   it, cb_log, ramp, ramp_from, tail_dirty, nread, forwarded,
                   fresh>>

\* SerialTransport.open: nothing to do on an open port; serial.Serial(port)
\* fails when the device is not there
SerialOpen ==
    /\ tkind = "serial"
    /\ IF link = "open"
       THEN TransportCall("open", FALSE, "", link, Ret("None", <<>>))
       ELSE IF peer = "up"
       THEN TransportCall("open", FALSE, "", "open", Ret("None", <<>>))
       ELSE TransportCall("open", FALSE, "", link, Raised("SerialException", <<>>))

\* SerialTransport has no close of its own: Transport.close raises
SerialClose ==
    /\ tkind = "serial"
    /\ TransportCall("close", FALSE, "", link, Raised("NotImplementedError", <<>>))

\* SocketTransport.open: self.sock.connect(self.addr)
SocketOpen ==
    /\ tkind = "socket"
    /\ IF link = "none" /\ peer = "up"
       THEN TransportCall("open", FALSE, "", "open", Ret("None", <<>>))
       ELSE IF link = "none"
       THEN TransportCall("open", FALSE, "", link, Raised("ConnectionRefusedError", <<>>))
       ELSE TransportCall("open", FALSE, "", link, Raised("OSError", <<>>))

\* SocketTransport.close: self.sock.close()
SocketClose ==
    /\ tkind = "socket"
    /\ TransportCall("close", FALSE, "", "closed", Ret("None", <<>>))

\* check_connection after the peek: what it returns and whether it closes.
\* len(data) == 0 returns True, as does any data; ConnectionResetError closes
\* and returns False; BlockingIOError returns True; OSError returns False
PeekVerdict(p) ==
    CASE p = "data" -> [alive |-> TRUE, close |-> FALSE]
      [] p = "eof" -> [alive |-> TRUE, close |-> FALSE]
      [] p = "ConnectionResetError" -> [alive |-> FALSE, close |-> TRUE]
      [] p = "BlockingIOError" -> [alive |-> TRUE, close |-> FALSE]
      [] p = "OSError" -> [alive |-> FALSE, close |-> FALSE]

Bool(b) == IF b THEN "True" ELSE "False"

\* SocketTransport.check_connection
CheckConnection ==
    /\ tkind = "socket"
    /\ IF IdleLessThan(FreshIdle)
       THEN TransportCall("check_connection", FALSE, "", link, Ret("True", <<>>))
       ELSE \E p \in PeekOutcomes :
               TransportCall("check_connection", TRUE, p,
                             IF PeekVerdict(p).close THEN "closed" ELSE link,
                             Ret(Bool(PeekVerdict(p).alive), <<>>))

(***************************************************************************)
(* fugu.py: FuguDevice.close                                               *)
(***************************************************************************)
\* close(close_transport): self.is_open = False
CloseFlag ==
    /\ \E close_transport \in BOOLEAN : Begin("close", <<T(Bool(close_transport))>>)
    /\ ret' = NoRet
    /\ is_open' = FALSE
    /\ cpc' = "close_reset"
    /\ UNCHANGED <<tvars, pwm_state, wifi_rssi, temperatures, voltages, ser_deque, ser_tail,
                   on_message, rvars, conf, pwm_ctrl, pwm_cnt, it, cb_log, ramp, ramp_from,
                   tail_dirty, tcall, nread, forwarded, fresh>>

\* self.pwm_state = PwmState(None, 0, 0, 0)
CloseReset ==
    /\ cpc = "close_reset"
    /\ pwm_state' = UnsetPwm
    /\ it' = [it EXCEPT !.reset = TRUE]
    /\ fresh' = FALSE
    /\ cpc' = "close_join"
    /\ UNCHANGED <<tvars, is_open, wifi_rssi, temperatures, voltages, ser_deque, ser_tail,
                   on_message, rvars, cop, cmd, l, round, ret, conf, pwm_ctrl, pwm_cnt,
                   cb_log, drained, prewrite, ramp, ramp_from, scan, tail_dirty, tcall,
                   nread, forwarded>>

\* if self._rx_thread.is_alive(): self._rx_thread.join()
CloseJoin ==
    /\ cpc = "close_join"
    /\ rpc \in {"stopped", "dead"}
    /\ cpc' = "close_transport"
    /\ UNCHANGED <<tvars, fvars, rvars, cop, cmd, l, round, ret, conf, pwm_ctrl, pwm_cnt,
                   hvars>>

\* if close_transport: self.transport.close()
CloseTransport ==
    /\ cpc = "close_transport"
    /\ cpc' = "idle"
    /\ IF cmd = <<T("True")>>
       THEN /\ link' = IF tkind = "socket" THEN "closed" ELSE link
            /\ ret' = IF tkind = "socket" THEN Ret("None", <<>>)
                      ELSE Raised("NotImplementedError", <<>>)
            /\ tcall' = [op |-> "close", before |-> link, after |-> link', idle |-> elapsed,
                         stale |-> FALSE, peek |-> ""]
       ELSE /\ ret' = Ret("None", <<>>)
            /\ UNCHANGED <<link, tcall>>
    /\ UNCHANGED <<tkind, peer, elapsed, sent, wire, fvars, rvars, cop, cmd, l, round, conf,
                   pwm_ctrl, pwm_cnt, it, cb_log, drained, prewrite, ramp, ramp_from, scan,
                   tail_dirty, nread, forwarded, fresh>>

(***************************************************************************)
(* The environment: time, and the device's end of the link                 *)
(***************************************************************************)
\* half a second passes
Tick ==
    /\ tkind = "socket"
    /\ elapsed < MaxElapsed
    /\ elapsed' = elapsed + 1
    /\ UNCHANGED <<tkind, link, peer, sent, wire, fvars, rvars, cvars, hvars>>

\* the device closes its end of the connection
PeerCloses ==
    /\ tkind = "socket"
    /\ peer = "up"
    /\ peer' = "eof"
    /\ UNCHANGED <<tkind, link, elapsed, sent, wire, fvars, rvars, cvars, hvars>>

\* the connection is reset, or the serial device is unplugged
PeerGone ==
    /\ peer # "reset"
    /\ peer' = "reset"
    /\ UNCHANGED <<tkind, link, elapsed, sent, wire, fvars, rvars, cvars, hvars>>

\* the owner closes the serial.Serial object, which the transport then finds
\* with is_open false
PortClosed ==
    /\ tkind = "serial"
    /\ link = "open"
    /\ link' = "closed"
    /\ UNCHANGED <<tkind, peer, elapsed, sent, wire, fvars, rvars, cvars, hvars>>

(***************************************************************************)
(* Specifications                                                          *)
(***************************************************************************)
\* the acknowledgment protocol against the reader loop
InitAck == InitWith({"serial"}, AckWire) /\ NothingRead
NextAck ==
    \/ ReaderTop
    \/ ReaderReadCounted
    \/ ReaderParse
    \/ ReaderAppendQueue
    \/ ReaderAppendTail
    \/ ReaderCallback
    \/ CommandAck
    \/ AckWrite
    \/ AckPoll
    \/ AckFlush
SpecAck == InitAck /\ [][NextAck]_vars

\* the acknowledgment protocol against a device that never stops talking
InitLive == InitWith({"serial"}, LiveWire) /\ NothingRead
CommandAckSync == AckClear("command_ack", CmdSync) /\ conf' = NoConf
ReaderLive ==
    \/ ReaderTop
    \/ ReaderReadPaced
    \/ ReaderParse
    \/ ReaderAppendQueue
    \/ ReaderAppendTail
    \/ ReaderCallback
CallerLive ==
    \/ AckWrite
    \/ AckPoll
    \/ AckFlush
NextLive == ReaderLive \/ CallerLive \/ CommandAckSync
\* both threads are scheduled again and again
SpecLive == InitLive /\ [][NextLive]_vars /\ WF_vars(ReaderLive) /\ WF_vars(CallerLive)

\* the reader loop on the lines of the telemetry stream
Init == InitWith({"serial"}, ReaderWire) /\ NothingRead
Next ==
    \/ ReaderTop
    \/ ReaderReadCounted
    \/ ReaderParse
    \/ ReaderCmp
    \/ ReaderCommit
    \/ ReaderAppendQueue
    \/ ReaderAppendTail
    \/ ReaderCallback
    \/ RegisterCallback
Spec == Init /\ [][Next]_vars

\* the configuration query against the reader loop
InitConf == InitWith({"serial"}, ConfWire) /\ NothingRead
NextConf ==
    \/ ReaderTop
    \/ ReaderReadCounted
    \/ ReaderParse
    \/ ReaderAppendQueue
    \/ ReaderAppendTail
    \/ ReaderCallback
    \/ GetConfValue
    \/ AckWrite
    \/ AckPoll
    \/ AckFlush
    \/ ConfIter
    \/ ConfNext
SpecConf == InitConf /\ [][NextConf]_vars

\* the ramp, from every control value the reader loop may have committed
InitRamp ==
    /\ InitWith({"serial", "socket"}, {})
    /\ \E c \in 0..MaxPwm : TelemetryRead(c)
NextRamp == SetD \/ RampStep
SpecRamp == InitRamp /\ [][NextRamp]_vars

\* the transports under the reader loop, with a failing link
InitLink == InitWith({"serial", "socket"}, LinkWire) /\ NothingRead
NextLink ==
    \/ ReaderTop
    \/ ReaderReadCounted
    \/ ReaderParse
    \/ ReaderAppendQueue
    \/ ReaderAppendTail
    \/ ReaderCallback
    \/ SerialOpen
    \/ SerialClose
    \/ SocketOpen
    \/ SocketClose
    \/ CheckConnection
    \/ Tick
    \/ PeerCloses
    \/ PeerGone
    \/ PortClosed
SpecLink == InitLink /\ [][NextLink]_vars

\* the lines a reader loop has forwarded of a device that printed a
\* configuration value TailLen - 1 times, each line with another number in
\* front, and sent no telemetry yet
RingFill == [c \in 1..(TailLen - 1) |-> <<N(c), T(": ")>> \o ConfText("net", "ssid", "home")]

\* the replay ring one line short of full, the queue drained by the caller
RingFilled ==
    /\ pwm_state = UnsetPwm
    /\ wifi_rssi = 0
    /\ temperatures = <<>>
    /\ voltages = <<>>
    /\ ser_deque = <<>>
    /\ ser_tail = RingFill
    /\ forwarded = RingFill
    /\ fresh = FALSE

\* the caller's one operation of the run: wait_for_pwm_state, set_D to 0 or to
\* a value one past max_step, command_ack of the command get_conf_value sends,
\* or get_conf_value
RingWait == cop = "" /\ WaitReset
RingSetD == cop = "" /\ SetD /\ pwm_cnt' \in {0, max_step + 1}
RingAck == cop = "" /\ AckClear("command_ack", GetConfigCmd("net", "ssid")) /\ conf' = NoConf
RingConf == cop = "" /\ GetConfValue

\* the replay ring under the reader loop and the caller's operations
RingWire == {LTeleA, LOkConf}
InitRing == InitWith({"serial"}, RingWire) /\ RingFilled
NextRing ==
    \/ ReaderTop
    \/ ReaderReadCounted
    \/ ReaderParse
    \/ ReaderCmp
    \/ ReaderCommit
    \/ ReaderAppendQueue
    \/ ReaderAppendTail
    \/ ReaderCallback
    \/ RingAck
    \/ RingConf
    \/ AckWrite
    \/ AckPoll
    \/ AckFlush
    \/ ConfIter
    \/ ConfNext
    \/ RingSetD
    \/ RampStep
    \/ RingWait
    \/ WaitPoll
SpecRing == InitRing /\ [][NextRing]_vars

\* wait_for_pwm_state against a device that keeps sending telemetry with the
\* same PWM fields, before any telemetry was handled (where the blocking
\* constructor waits) and after
WaitWire == {LTeleA, LTeleA2}
InitWait == InitWith({"serial"}, WaitWire) /\ (NothingRead \/ TelemetryRead(7))
\* the caller waits again while fewer than MaxQueue lines are unread
WaitBounded == Len(ser_deque) < MaxQueue /\ WaitReset
ReaderWait ==
    \/ ReaderTop
    \/ ReaderReadFree
    \/ ReaderParse
    \/ ReaderCmp
    \/ ReaderCommit
    \/ ReaderAppendQueue
    \/ ReaderAppendTail
    \/ ReaderCallback
NextWait == ReaderWait \/ WaitBounded \/ WaitPoll
\* both threads are scheduled again and again
SpecWait == InitWait /\ [][NextWait]_vars /\ WF_vars(ReaderWait) /\ WF_vars(WaitPoll)

\* close against the reader loop, on either transport
CloseWire == {LTeleA, LHello}
InitClose == InitWith({"serial", "socket"}, CloseWire) /\ NothingRead
NextClose ==
    \/ ReaderTop
    \/ ReaderReadCounted
    \/ ReaderParse
    \/ ReaderCmp
    \/ ReaderCommit
    \/ ReaderAppendQueue
    \/ ReaderAppendTail
    \/ ReaderCallback
    \/ CloseFlag
    \/ CloseReset
    \/ CloseJoin
    \/ CloseTransport
SpecClose == InitClose /\ [][NextClose]_vars

(***************************************************************************)
(* The claims                                                              *)
(***************************************************************************)
\* the line carries the acknowledgment text "OK: " followed by text
Carries(line, text) == Contains(line, <<T("OK: ")>> \o text)

\* command_ack has returned success
AckSucceeded == cop = "command_ack" /\ cpc = "idle" /\ ret.kind = "True"

\* command_ack(cmd): when no line popped before carries "OK: " + text and the
\* k-th line queued after cmd was written does, the call returned success on
\* popping that line: no line was popped after it and the call did not raise
AckOnFirst(text) ==
    cop = "command_ack" =>
       \A k \in (prewrite + 1)..Len(drained) :
          (Carries(drained[k], text) /\ \A i \in 1..(k - 1) : ~Carries(drained[i], text))
             => (k = Len(drained) /\ AckSucceeded)

\* C1, as amended: command_ack(cmd) returns success upon popping the first line
\* that contains "OK: " followed by cmd stripped of its surrounding whitespace,
\* having popped and ignored every line before it, and does not raise the
\* timeout error once such a line was popped in a polling round.
C1_AckOnFirstStripped == AckOnFirst(Strip(cmd))

\* C1 as stated: the same of the lines that contain "OK: " followed by cmd as
\* it was passed.
C1_AckOnFirstAsPassed == AckOnFirst(cmd)

\* C1's case: success on the third line queued after the command was written,
\* after two that did not match
C1_ThirdLineAcks == AckSucceeded /\ prewrite = 0 /\ Len(drained) = 3

\* C2: a command_ack that has begun to poll comes to an end (it returns or
\* raises), whatever the reader loop appends meanwhile.
C2_AckTerminates == (cpc = "ack_poll") ~> (cpc = "idle")

\* the four PWM fields of two snapshots agree
SameFields(a, b) ==
    a.ccm = b.ccm /\ a.pwm_ctrl = b.pwm_ctrl /\ a.pwm_sync = b.pwm_sync
       /\ a.pwm_sync_max = b.pwm_sync_max

\* the line holds both the sensor token and the word "timeout"
BothWords(line) == \E i, j \in 1..Len(line) : line[i].k = "ina22x" /\ line[j].k = "timeout"

\* the reader loop is back at the top after an iteration on a telemetry line
TelemetryHandled == rpc = "top" /\ it.tele

\* the readings are those the telemetry line in hand carries
ReadingsOf(line) ==
    \A vin \in {73, 74}, vout \in {27, 28}, ntc \in {N(53), T("nan")},
       mode \in {"CCM", "DCM"}, ctrl \in {7, 8},
       extra \in {<<>>, <<T("timeout"), T(" "), T("ina22x"), T(" ")>>} :
       line = Strip(TeleLine(vin, vout, ntc, mode, ctrl, 12, extra))
          => /\ voltages = <<vin, vout>>
             /\ temperatures = <<IF ntc.k = "nan" THEN NaN ELSE ntc.n, 54>>
             /\ wifi_rssi = -40
             /\ s = PwmState(IF mode = "CCM" THEN "True" ELSE "False", ctrl, 12, 1257)

\* a telemetry line with the PWM fields of Device State updates the readings
\* and nothing else: no new Device State, no append, no callback
UnchangedDropped ==
    (TelemetryHandled /\ SameFields(it.before, s))
       => /\ ReadingsOf(it.line)
          /\ ~it.commit /\ pwm_state = it.before
          /\ ~it.q /\ ~it.t /\ it.cb = ""

\* a telemetry line with a changed PWM field replaces Device State
ChangedCommitted ==
    (TelemetryHandled /\ ~SameFields(it.before, s))
       => ReadingsOf(it.line) /\ it.commit /\ pwm_state = s

\* the line in hand went to the queue, to the ring and to the callback (if one
\* is registered)
Forwarded ==
    /\ it.q /\ ser_deque # <<>> /\ ser_deque[Len(ser_deque)] = it.line
    /\ it.t /\ ser_tail # <<>> /\ ser_tail[Len(ser_tail)] = it.line
    /\ it.cb # ""
    /\ it.cb = "invoked" => (cb_log # <<>> /\ cb_log[Len(cb_log)] = it.line)

\* C3, as amended: a telemetry line whose four PWM fields equal Device State
\* updates the readings but is not forwarded; one with a changed PWM field
\* replaces Device State and, unless it holds both 'ina22x' and 'timeout',
\* is appended to queue and ring and passed to the callback
C3_ChangeDetectionButNoise ==
    /\ UnchangedDropped
    /\ ChangedCommitted
    /\ (TelemetryHandled /\ ~SameFields(it.before, s) /\ ~BothWords(it.line)) => Forwarded

\* C3 as stated: every telemetry line with a changed PWM field is forwarded
C3_ChangeDetection ==
    /\ UnchangedDropped
    /\ ChangedCommitted
    /\ (TelemetryHandled /\ ~SameFields(it.before, s)) => Forwarded

\* C3's case: after a telemetry line was committed and forwarded, a second one
\* with the same PWM fields and other voltages has been handled
C3_RepeatedFieldsHandled ==
    /\ TelemetryHandled
    /\ it.cmp = "eq"
    /\ it.line = Strip(LTeleA2)
    /\ Strip(LTeleA) \in Range(ser_deque)

\* C4: no line holding both 'ina22x' and 'timeout' is in the consuming queue
\* or the replay ring, and none was passed to the callback
C4_NoiseNeverForwarded ==
    \A line \in Range(ser_deque) \cup Range(ser_tail) \cup Range(cb_log) : ~BothWords(line)

\* C4's case: a telemetry line with a changed PWM field that also holds both
\* words has been handled
C4_NoisyTelemetryHandled ==
    /\ TelemetryHandled
    /\ it.commit
    /\ BothWords(it.line)

\* C5: check_connection more than 2 seconds after the last activity returns
\* false and closes the transport when the peek returns zero bytes, and returns
\* true and leaves the transport open when the peek would block
C5_StalePeek ==
    (tcall.op = "check_connection" /\ tcall.idle > FreshIdle * TicksPerSec)
       => /\ tcall.peek = "eof" => (ret.kind = "False" /\ tcall.after = "closed")
          /\ tcall.peek = "BlockingIOError" => (ret.kind = "True" /\ tcall.after = "open")

\* set_D has returned
RampDone == cop = "set_D" /\ cpc = "idle" /\ ret.kind = "None"

\* C6: the values set_D writes go strictly from the start value toward the
\* target and never past it; there are no more of them than steps of max_step
\* fit between start and target, so the loop ends; and when set_D has returned
\* from a ramp the last value written is the target
C6_RampMonotoneToTarget ==
    cop = "set_D" =>
       /\ \A i \in 1..Len(ramp) :
             LET prev == IF i = 1 THEN ramp_from ELSE ramp[i - 1]
             IN  IF pwm_cnt > ramp_from
                 THEN prev < ramp[i] /\ ramp[i] <= pwm_cnt
                 ELSE prev > ramp[i] /\ ramp[i] >= pwm_cnt
       /\ Len(ramp) * max_step < Abs(pwm_cnt - ramp_from) + max_step
       /\ (RampDone /\ pwm_cnt # ramp_from) => (ramp # <<>> /\ ramp[Len(ramp)] = pwm_cnt)

\* C6's case: set_D has returned from a downward ramp of three writes
C6_ThreeStepsDown == RampDone /\ Len(ramp) = 3 /\ ramp[3] < ramp[1] /\ ramp[1] < ramp_from

\* C7: with the target equal to the start value set_D writes nothing; with
\* target 0 and another start value it writes 0 once and nothing else
C7_RampEdgeCases ==
    cop = "set_D" =>
       /\ pwm_cnt = ramp_from => ramp = <<>>
       /\ (pwm_cnt = 0 /\ ramp_from # 0) => (ramp \in {<<>>, <<0>>} /\ (RampDone => ramp = <<0>>))

\* C7's case: set_D(0) has returned, from a start value more than max_step away
C7_StraightToZero == RampDone /\ pwm_cnt = 0 /\ ramp_from > max_step /\ ramp = <<0>>

\* the position in line at which the reply Conf '/littlefs/conf/<file>:<key>' =
\* '<value>' to the query in hand begins
ConfAt(line, i) ==
    /\ i + 6 <= Len(line)
    /\ SubSeq(line, i, i + 4) =
          <<T("Conf '/littlefs/conf/"), T(conf.file), T(":"), T(conf.key), T("' = '")>>
    /\ line[i + 6] = T("'")

\* the lines of the ring, as get_conf_value found it, that carry the reply
ConfLines == {k \in 1..Len(scan) : \E i \in 1..Len(scan[k]) : ConfAt(scan[k], i)}

\* the command of the operation in hand has been acknowledged
Acked == drained # <<>> /\ Carries(drained[Len(drained)], cmd)

\* C8: once its command is acknowledged, get_conf_value returns the value of
\* the most recent line of the ring that carries the reply, and the absent
\* result, without raising, when no line of the ring does
C8_ConfQuery ==
    (cop = "get_conf_value" /\ cpc = "idle" /\ Acked) =>
       IF ConfLines = {}
       THEN ret = Ret("None", <<>>)
       ELSE LET k == CHOOSE k \in ConfLines : \A j \in ConfLines : j <= k
                i == CHOOSE i \in 1..Len(scan[k]) : ConfAt(scan[k], i)
            IN  ret = Ret("value", <<scan[k][i + 5]>>)

\* C9: the reader loop has left its loop only if the facade cleared is_open
C9_ReaderStopsOnlyWhenClosed == rpc \in {"stopped", "dead"} => ~is_open

\* C10: open on an open transport leaves it open and does not fail; close
\* releases the transport and does not fail, on either transport
C10_OpenCloseIdempotent ==
    /\ (tcall.op = "open" /\ tcall.before = "open")
          => (ret.kind # "raised" /\ tcall.after = "open")
    /\ tcall.op = "close" => (ret.kind # "raised" /\ tcall.after = "closed")

\* the forwarded lines whose iteration has passed the callback step
Delivered ==
    IF rpc \in {"appt", "cb"} THEN SubSeq(forwarded, 1, Len(forwarded) - 1) ELSE forwarded

\* C11: the callback has been invoked once for each line forwarded since it was
\* first invoked, in the order the lines were read: a forwarded line was passed
\* over only while no callback was registered; and it is not invoked for a
\* suppressed line (unchanged telemetry, noise, empty)
C11_CallbackOncePerForwarded ==
    /\ Len(cb_log) <= Len(Delivered)
    /\ cb_log = LastN(Delivered, Len(cb_log))
    /\ (rpc = "top" /\ it.q) => (it.cb # "" /\ (it.cb = "unset" => cb_log = <<>>))
    /\ (rpc = "top" /\ (it.cmp = "eq" \/ BothWords(it.line) \/ it.line = <<>>))
          => (~it.q /\ it.cb = "")

\* C11's case: with a callback registered two lines were forwarded and called
\* back, and a third, an unchanged telemetry line, was suppressed
C11_TwoCalledBackOneSuppressed ==
    /\ on_message
    /\ rpc = "top"
    /\ it.cmp = "eq"
    /\ Len(cb_log) = 2
    /\ cb_log = forwarded

\* C13: only the calling thread writes to the transport: no frame on the wire
\* was written by the reader thread
C13_ReaderNeverWrites == sent.by # "reader"

\* the reader's last read of the telnet socket came back to the loop: it
\* returned data, returned nothing, or timed out
SocketReadDone == tkind = "socket" /\ it.res \in {"data", "empty", "TimeoutError"}

\* C14: a read of the telnet socket that began more than 1 second after the
\* last activity wrote the probe frame, whether it received data, nothing or
\* timed out, and a read that began within the second wrote none
C14_ProbeOnIdleRead ==
    SocketReadDone => (it.probe <=> it.idle > ProbeIdle * TicksPerSec)

\* C15: when set_D(pwm_cnt) has returned, the control value of Device State is
\* pwm_cnt
C15_RampLeavesStateAtTarget == RampDone => pwm_state.pwm_ctrl = pwm_cnt

\* C16: when command_ack has returned success, the line it matched was
\* appended to the queue after the call wrote the command: it is not one of the
\* prewrite lines appended between the clear and the write
C16_NoStaleAck == AckSucceeded => Len(drained) > prewrite

\* the lines forwarded whose iteration has passed the append to the ring
Ringed ==
    IF rpc = "appt" THEN SubSeq(forwarded, 1, Len(forwarded) - 1) ELSE forwarded

\* C12: the replay ring holds at most TailLen lines and they are, in order,
\* the most recent of the lines forwarded, whatever the caller's operations
\* (command_ack, get_conf_value, set_D, wait_for_pwm_state) did meanwhile
C12_RingIsRecentForwarded ==
    /\ Len(ser_tail) <= TailLen
    /\ ser_tail = LastN(Ringed, TailLen)

\* C12's case: command_ack has cleared the queue, drained it and returned
\* while the full ring dropped its oldest line
C12_AckedWithRingTurnedOver ==
    /\ AckSucceeded
    /\ ser_deque = <<>>
    /\ Len(ser_tail) = TailLen
    /\ ser_tail[1] = RingFill[2]

\* wait_for_pwm_state has returned
WaitDone == cop = "wait_for_pwm_state" /\ cpc = "idle" /\ ret.kind = "None"

\* the snapshots the reader loop builds from the telemetry lines of the device
WireSnapshots ==
    {SnapshotOf(ReSearch(RE_PWM, Strip(b)), Strip(b)) :
        b \in {w \in wire : ReSearch(RE_PWM, Strip(w)).ok}}

\* C17: the mode of Device State is set only by the reader loop's commit of a
\* parsed telemetry line, and when wait_for_pwm_state has returned the PWM
\* fields of Device State are those of a line read after the reset
C17_WaitReturnsFresh ==
    /\ pwm_state.ccm # "None" => pwm_state \in WireSnapshots
    /\ WaitDone => fresh

\* C18: a wait_for_pwm_state that has reset Device State returns, also when
\* every telemetry line after the reset has the PWM fields Device State had
\* before the reset
C18_WaitReturns == (cpc = "wait_poll") ~> (cpc = "idle")

\* C18's case: wait_for_pwm_state has returned on a line read after the reset
\* that has the PWM fields of the line handled before the reset
C18_ReturnedOnSameFields ==
    /\ WaitDone
    /\ fresh
    /\ Len(forwarded) = 2
    /\ SameFields(pwm_state, PwmState("True", 7, 12, 1257))
    /\ forwarded[1] = Strip(LTeleA)

\* close() has come to its end, by return or by exception
CloseEnded == cop = "close" /\ cpc = "idle"

\* C19: close() closes the transport only once the reader loop has stopped,
\* and it returns, with the loop stopped and, when asked to close the
\* transport, the transport closed
C19_ShutdownOrdering ==
    /\ (tcall.op = "close" /\ tcall.after = "closed") => rpc = "stopped"
    /\ cpc = "close_transport" => rpc = "stopped"
    /\ CloseEnded => /\ ret.kind = "None"
                     /\ rpc = "stopped"
                     /\ cmd = <<T("True")>> => link = "closed"

\* C20: once close() has returned, Device State is the unset state
C20_StateUnsetAfterClose == (CloseEnded /\ ret.kind = "None") => pwm_state = UnsetPwm

====
